---- MODULE Spec2Model ----
(***************************************************************************)
(* Model of the multi-agent orchestration engine                           *)
(* (apps/web/src/lib/agents/orchestrator.ts): one MultiAgentOrchestrator   *)
(* instance and one processRequest call on it, as both callers in the      *)
(* repository use it (the SSE route handler and streamMultiAgentResponse    *)
(* construct a fresh orchestrator per request).                            *)
(*                                                                         *)
(* The text-generation service is an opaque collaborator: each call either *)
(* throws or returns text, and the text is any text.  The planner's text   *)
(* is modelled by what the two extraction patterns and JSON.parse make of  *)
(* it (planData is `any`: its fields have whatever JSON type the reply     *)
(* gave them); a task's text is modelled as its sequence of <file ...>     *)
(* blocks.  processRequest's own argument has its declared type, a string. *)
(***************************************************************************)
EXTENDS Integers, Sequences, FiniteSets, TLC

\* Bound: the longest task list the planner's JSON carries.
MaxTasks == 3

-----------------------------------------------------------------------------
(* Paths, languages, agents *)

P1 == "src/App.tsx"
P2 == "src/db/schema.sql"
Paths == {P1, P2}

\* path.split('.').pop()?.toLowerCase() on the paths of the model
PathExt(path) ==
  CASE path = "src/App.tsx" -> "tsx"
    [] path = "src/db/schema.sql" -> "sql"
    [] OTHER -> path

\* languageMap[ext || ''] || 'plaintext'
getLanguageFromPath(path) ==
  LET ext == PathExt(path) IN
  CASE ext \in {"ts", "tsx"} -> "typescript"
    [] ext \in {"js", "jsx"} -> "javascript"
    [] ext \in {"css", "scss", "less", "html", "json", "sql", "go", "java",
                "php", "toml", "xml", "graphql", "prisma"} -> ext
    [] ext = "md" -> "markdown"
    [] ext = "py" -> "python"
    [] ext = "rs" -> "rust"
    [] ext = "rb" -> "ruby"
    [] ext \in {"sh", "bash"} -> "shell"
    [] ext \in {"yaml", "yml"} -> "yaml"
    [] ext = "svg" -> "xml"
    [] ext = "gql" -> "graphql"
    [] ext = "env" -> "dotenv"
    [] OTHER -> "plaintext"

AgentRole == {"orchestrator", "ui", "backend", "database", "devops", "reviewer"}

\* role.toLowerCase() on the role strings of the model
ToLowerCase(s) ==
  CASE s = "DB" -> "db"
    [] s = "Orchestrator" -> "orchestrator"
    [] OTHER -> s

roleMap ==
  [r \in {"ui", "ui_engineer", "frontend", "backend", "backend_engineer", "api",
          "database", "database_architect", "db", "devops", "devops_engineer",
          "config", "reviewer", "code_reviewer", "orchestrator"} |->
     CASE r \in {"ui", "ui_engineer", "frontend"} -> "ui"
       [] r \in {"backend", "backend_engineer", "api"} -> "backend"
       [] r \in {"database", "database_architect", "db"} -> "database"
       [] r \in {"devops", "devops_engineer", "config"} -> "devops"
       [] r \in {"reviewer", "code_reviewer"} -> "reviewer"
       [] OTHER -> "orchestrator"]

normalizeAgentRole(role) ==
  LET l == ToLowerCase(role) IN
  IF l \in DOMAIN roleMap THEN roleMap[l] ELSE "ui"

-----------------------------------------------------------------------------
(* Values of the plan's untyped fields.  A JSON field that should be an    *)
(* array is either an array or some other truthy value (a string, a        *)
(* number, an object); the code passes both through `x || []`.             *)

\* dependencies: an array of order numbers (as the set `every` ranges over)
DepArray(s) == [isArray |-> TRUE, vals |-> s]
\* dependencies: a truthy non-array, e.g. "dependencies": 1
DepOther == [isArray |-> FALSE, vals |-> {}]

\* files: an array of path hints
FileArray(q) == [isArray |-> TRUE, items |-> q, length |-> Len(q)]
\* files: a non-empty string, e.g. "files": "src/App.tsx" (it has a length, no join)
FileString == [isArray |-> FALSE, items |-> <<>>, length |-> 11]

-----------------------------------------------------------------------------
(* The planner's reply and createPlan *)

\* One raw entry of planData.tasks.  order 0 stands for a missing (or falsy)
\* order; agentIsString FALSE for a missing or non-string agent; files and
\* dependencies "absent" for a missing (or falsy) field.
RawTask(order, agentIsString, agent, description, files, dependencies) ==
  [order |-> order, agentIsString |-> agentIsString, agent |-> agent,
   description |-> description, files |-> files, dependencies |-> dependencies]

Absent == [present |-> FALSE]
Given(v) == [present |-> TRUE, value |-> v]

\* The raw task entries the planner's JSON is built from.
RawTasks ==
  { RawTask(0, TRUE, "Orchestrator", "plain", Absent, Absent),
    RawTask(1, TRUE, "DB", "numbered", Given(FileArray(<<P2>>)), Given(DepArray({}))),
    RawTask(0, TRUE, "api", "after-1", Given(FileArray(<<P1, P2>>)), Given(DepArray({1}))),
    RawTask(0, TRUE, "wizard", "after-2", Given(FileArray(<<>>)), Given(DepArray({2}))),
    RawTask(0, TRUE, "ui", "files-string", Given(FileString), Absent),
    RawTask(0, TRUE, "backend", "deps-number", Absent, Given(DepOther)),
    RawTask(0, FALSE, "", "no-agent", Absent, Absent) }

RECURSIVE SeqsUpTo(_, _)
\* all sequences over S of length 0..n
SeqsUpTo(S, n) ==
  IF n = 0 THEN {<<>>}
  ELSE LET shorter == SeqsUpTo(S, n - 1) IN
       shorter \cup {Append(q, x) : q \in {r \in shorter : Len(r) = n - 1}, x \in S}

\* What JSON.parse makes of the extracted text: a SyntaxError, a value
\* without a tasks array, or an object whose tasks is an array.
ParsedData ==
  {[syntaxOk |-> FALSE, hasTasks |-> FALSE, tasks |-> <<>>],
   [syntaxOk |-> TRUE, hasTasks |-> FALSE, tasks |-> <<>>]}
  \cup {[syntaxOk |-> TRUE, hasTasks |-> TRUE, tasks |-> q] : q \in SeqsUpTo(RawTasks, MaxTasks)}

\* The planning call's outcome: it throws, or returns text.  fence: the text
\* has no ```json block, one with an empty body, or one with a body; brace:
\* it has a {..."tasks"...} span; data: what the extracted text parses to.
NoData == [syntaxOk |-> FALSE, hasTasks |-> FALSE, tasks |-> <<>>]
PlanResponses ==
  {[kind |-> "throws", fence |-> "none", brace |-> FALSE, data |-> NoData]}
  \cup {r \in [kind : {"text"}, fence : {"none", "empty", "body"},
               brace : BOOLEAN, data : ParsedData] :
          \* a text no pattern extracts from parses to nothing; a JSON
          \* object with a tasks key is itself a {..."tasks"...} span
          /\ (r.fence # "body" /\ ~(r.fence = "none" /\ r.brace)) => r.data = NoData
          /\ (r.data.syntaxOk /\ r.data.hasTasks) => r.brace}

\* lines 199-212: jsonContent is non-empty
HasJsonContent(resp) ==
  IF resp.fence # "none" THEN resp.fence = "body" ELSE resp.brace

\* lines 219-225: one normalized task
NormalizeTask(t, i) ==
  [order |-> IF t.order # 0 THEN t.order ELSE i,
   agent |-> normalizeAgentRole(t.agent),
   description |-> t.description,
   files |-> IF t.files.present THEN t.files.value ELSE FileArray(<<>>),
   dependencies |-> IF t.dependencies.present THEN t.dependencies.value ELSE DepArray({})]

RECURSIVE SumEstimated(_, _)
\* lines 226-229: reduce((sum, t) => sum + (t.files?.length || 1), 0)
SumEstimated(raw, i) ==
  IF i > Len(raw) THEN 0
  ELSE (IF raw[i].files.present /\ raw[i].files.value.length # 0
          THEN raw[i].files.value.length ELSE 1)
       + SumEstimated(raw, i + 1)

NoPlan == [summary |-> "", tasks |-> <<>>, estimatedFiles |-> 0]

\* mutant: a reply nothing is extracted from gives an empty plan, no throw
createPlan_EmptyPlanOnNoJson(resp) ==
  IF resp.kind = "throws"
    THEN [ok |-> FALSE, error |-> "API call failed", plan |-> NoPlan]
  ELSE IF ~HasJsonContent(resp)
    THEN [ok |-> TRUE, error |-> "",
          plan |-> [summary |-> "Building the requested feature", tasks |-> <<>>,
                    estimatedFiles |-> 0]]
  ELSE IF \/ ~resp.data.syntaxOk
          \/ ~resp.data.hasTasks
          \/ \E i \in 1..Len(resp.data.tasks) : ~resp.data.tasks[i].agentIsString
    THEN [ok |-> FALSE, error |-> "Invalid plan format from AI", plan |-> NoPlan]
  ELSE [ok |-> TRUE, error |-> "",
        plan |-> [summary |-> "Building the requested feature",
                  tasks |-> [i \in 1..Len(resp.data.tasks) |->
                               NormalizeTask(resp.data.tasks[i], i)],
                  estimatedFiles |-> SumEstimated(resp.data.tasks, 1)]]

\* createPlan: it returns a plan (ok) or throws (error is error.message).
\* The summary text is not modelled beyond its default.
createPlan(resp) ==
  IF resp.kind = "throws"
    THEN [ok |-> FALSE, error |-> "API call failed", plan |-> NoPlan]
  ELSE IF ~HasJsonContent(resp)
    THEN [ok |-> FALSE, error |-> "No valid plan found in AI response", plan |-> NoPlan]
  ELSE IF \/ ~resp.data.syntaxOk
          \/ ~resp.data.hasTasks
          \/ \E i \in 1..Len(resp.data.tasks) : ~resp.data.tasks[i].agentIsString
    THEN [ok |-> FALSE, error |-> "Invalid plan format from AI", plan |-> NoPlan]
  ELSE [ok |-> TRUE, error |-> "",
        plan |-> [summary |-> "Building the requested feature",
                  tasks |-> [i \in 1..Len(resp.data.tasks) |->
                               NormalizeTask(resp.data.tasks[i], i)],
                  estimatedFiles |-> SumEstimated(resp.data.tasks, 1)]]

-----------------------------------------------------------------------------
(* createFallbackPlan *)

\* message.includes(kw) on the lowercased message; a message is modelled by
\* the set of keywords it contains.
Includes(message, kw) == kw \in message


\* mutant: the fallback tasks are given no dependencies
PlanTask_NoDependencies(order, agent, description, files, deps) ==
  [order |-> order, agent |-> agent, description |-> description,
   files |-> FileArray(files), dependencies |-> DepArray({})]

\* lines 279-285, 292-298, 303-309: one task of the fallback plan
PlanTask(order, agent, description, files, deps) ==
  [order |-> order, agent |-> agent, description |-> description,
   files |-> FileArray(files), dependencies |-> DepArray(deps)]

\* mutant: every later task depends on the first task
DependsOnLast_First(tasks) ==
  IF Len(tasks) > 0 THEN {tasks[1].order} ELSE {}

\* dependencies: tasks.length > 0 ? [tasks[tasks.length - 1].order] : []
DependsOnLast(tasks) ==
  IF Len(tasks) > 0 THEN {tasks[Len(tasks)].order} ELSE {}

RECURSIVE SumFiles(_, _)
SumFiles(tasks, i) ==
  IF i > Len(tasks) THEN 0 ELSE tasks[i].files.length + SumFiles(tasks, i + 1)

\* mutant: the ui task is added only when no other task was
createFallbackPlan_UiOnlyAlone(message) ==
  LET wantsDb == \/ Includes(message, "database") \/ Includes(message, "schema")
                 \/ Includes(message, "table") \/ Includes(message, "sql")
      t1 == IF wantsDb
              THEN <<PlanTask(1, "database", "Create database schema",
                              <<"src/db/schema.sql", "src/types/database.ts">>, {})>>
              ELSE <<PlanTask(1, "ui", "Create UI components",
                              <<"src/App.tsx", "src/components/Main.tsx">>, {})>>
  IN [summary |-> "Building feature", tasks |-> t1, estimatedFiles |-> SumFiles(t1, 1)]

\* lines 269-314
createFallbackPlan(message) ==
  LET wantsDb == \/ Includes(message, "database") \/ Includes(message, "schema")
                 \/ Includes(message, "table") \/ Includes(message, "sql")
      wantsApi == \/ Includes(message, "api") \/ Includes(message, "endpoint")
                  \/ Includes(message, "backend") \/ Includes(message, "server")
      t1 == IF wantsDb
              THEN <<PlanTask(1, "database", "Create database schema",
                              <<"src/db/schema.sql", "src/types/database.ts">>, {})>>
              ELSE <<>>
      t2 == IF wantsApi
              THEN Append(t1, PlanTask(Len(t1) + 1, "backend", "Create API endpoints",
                                       <<"src/app/api/route.ts">>, DependsOnLast(t1)))
              ELSE t1
      t3 == Append(t2, PlanTask(Len(t2) + 1, "ui", "Create UI components",
                                <<"src/App.tsx", "src/components/Main.tsx">>,
                                DependsOnLast(t2)))
  IN [summary |-> "Building feature", tasks |-> t3, estimatedFiles |-> SumFiles(t3, 1)]

-----------------------------------------------------------------------------
(* A task's generation call and extractFiles *)

\* One <file ...> block of a task's reply: well-formed, without its close
\* tag, or with an empty path.
Block(kind, path) == [kind |-> kind, path |-> path]

\* The replies a task's generation call returns.
Responses ==
  { <<>>,
    <<Block("ok", P1)>>,
    <<Block("ok", P1), Block("ok", P2)>> }

\* error.message of a call that throws: a service error, or the request
\* aborted from outside.
ConnectionError == "Connection error."
RequestAborted == "Request was aborted."
NoFilesError == "No files were generated. The AI response may not have used the correct format."
JoinTypeError == "task.files.join is not a function"

GenOutcomes ==
  {[kind |-> "throws", error |-> e, blocks |-> <<>>] : e \in {ConnectionError, RequestAborted}}
  \cup {[kind |-> "text", error |-> "", blocks |-> r] : r \in Responses}

RECURSIVE MatchBlocks(_, _, _, _)
\* fileRegex.exec over the reply: an opening tag with a non-empty path
\* matches lazily up to the next </file>, whichever block it belongs to.
\* open: <<>> or the opening tag waiting for a close tag.
MatchBlocks(blocks, i, open, acc) ==
  IF i > Len(blocks) THEN acc
  ELSE LET b == blocks[i] IN
    IF open = <<>>
      THEN CASE b.kind = "ok" ->
                  MatchBlocks(blocks, i + 1, <<>>,
                              Append(acc, [path |-> b.path, from |-> i, to |-> i]))
             [] b.kind = "noclose" ->
                  MatchBlocks(blocks, i + 1, <<[path |-> b.path, from |-> i]>>, acc)
             [] OTHER -> MatchBlocks(blocks, i + 1, <<>>, acc)
      ELSE CASE b.kind \in {"ok", "emptypath"} ->
                  MatchBlocks(blocks, i + 1, <<>>,
                              Append(acc, [path |-> open[1].path,
                                           from |-> open[1].from, to |-> i]))
             [] OTHER -> MatchBlocks(blocks, i + 1, open, acc)

PathsOf(files) == {files[i].path : i \in 1..Len(files)}

\* mutant: only the request's files count, not the files generated so far
IsExisting_RequestOnly(path, existing, generated) == path \in PathsOf(existing)

\* lines 415-416
IsExisting(path, existing, generated) ==
  path \in PathsOf(existing) \/ path \in PathsOf(generated)

\* The content of a file is named by the task (its position in the plan)
\* and the blocks of its reply the content spans; task 0 is the content a
\* file had before the run.
Content(task, from, to) == [task |-> task, from |-> from, to |-> to]

GeneratedFile(path, content, action) ==
  [path |-> path, content |-> content, language |-> getLanguageFromPath(path),
   action |-> action]

extractFiles(blocks, pos, existing, generated) ==
  LET ms == MatchBlocks(blocks, 1, <<>>, <<>>) IN
  [k \in 1..Len(ms) |->
     GeneratedFile(ms[k].path, Content(pos, ms[k].from, ms[k].to),
                   IF IsExisting(ms[k].path, existing, generated)
                     THEN "modify" ELSE "create")]

\* TaskResult
Failure(error, hasFiles) ==
  [success |-> FALSE, hasFiles |-> hasFiles, files |-> <<>>, error |-> error]
Success(files) ==
  [success |-> TRUE, hasFiles |-> TRUE, files |-> files, error |-> ""]

\* executeTask after its call settled (lines 366-396)
TaskResultOf(outcome, pos, existing, generated) ==
  IF outcome.kind = "throws" THEN Failure(outcome.error, FALSE)
  ELSE LET files == extractFiles(outcome.blocks, pos, existing, generated) IN
       IF Len(files) = 0 THEN Failure(NoFilesError, TRUE) ELSE Success(files)

-----------------------------------------------------------------------------
(* The File Registry and the task loop's bookkeeping *)

\* mutant: the dependency check always passes
DependenciesMet_Always(task, orders) == TRUE

\* lines 78-80
DependenciesMet(task, orders) == task.dependencies.vals \subseteq orders

\* mutant: every file is pushed, the path is never looked up
MergeFile_AlwaysPush(registry, file) == Append(registry, file)

\* lines 112-117
MergeFile(registry, file) ==
  IF \E i \in 1..Len(registry) : registry[i].path = file.path
    THEN LET existingIndex == CHOOSE i \in 1..Len(registry) :
                                /\ registry[i].path = file.path
                                /\ \A j \in 1..(i - 1) : registry[j].path # file.path
         IN [registry EXCEPT ![existingIndex] = file]
    ELSE Append(registry, file)

\* mutant: only the first file of a result is merged
MergeFiles_FirstOnly(registry, files, i) ==
  IF Len(files) = 0 THEN registry ELSE MergeFile(registry, files[1])

RECURSIVE MergeFiles(_, _, _)
\* lines 110-125, the registry side
MergeFiles(registry, files, i) ==
  IF i > Len(files) THEN registry
  ELSE MergeFiles(MergeFile(registry, files[i]), files, i + 1)

\* mutant: every recorded task is recorded as completed
TaskStatus_AlwaysCompleted(result) == "completed"

\* line 133
TaskStatus(result) == IF result.success THEN "completed" ELSE "failed"

\* mutant: the order of a successful task is not added
AddCompletedOrder_Never(orders, task, result) == orders

\* lines 140-142
AddCompletedOrder(orders, task, result) ==
  IF result.success THEN orders \cup {task.order} ELSE orders

\* AgentEvent; pos is the position in the plan of the task the loop is at
\* when the event is emitted (0 outside the loop).
Event(type, role, taskId, message, data, pos) ==
  [type |-> type, agentRole |-> role, taskId |-> taskId, message |-> message,
   data |-> data, pos |-> pos]

\* mutant: no event for the files of a task
FileEvents_None(files, task, pos) == <<>>

\* lines 119-124, one event per extracted file
FileEvents(files, task, pos) ==
  [k \in 1..Len(files) |->
     Event(IF files[k].action = "create" THEN "file_created" ELSE "file_modified",
           task.agent, <<>>,
           <<IF files[k].action = "create" THEN "Created" ELSE "Modified", files[k].path>>,
           <<files[k]>>, pos)]

\* mutant: the closing line counts the plan's tasks, skipped ones included
generateSummary_CountsPlanTasks(thePlan, files, tasks) ==
  LET successCount == Cardinality({i \in 1..Len(tasks) : tasks[i].status = "completed"})
  IN [summary |-> thePlan.summary,
      tasks |-> [i \in 1..Len(tasks) |->
                   [done |-> tasks[i].status = "completed",
                    description |-> tasks[i].description]],
      fileCount |-> Len(files),
      created |-> SelectSeq(files, LAMBDA f : f.action = "create"),
      modified |-> SelectSeq(files, LAMBDA f : f.action = "modify"),
      closing |-> [allCompleted |-> successCount = Len(thePlan.tasks),
                   successCount |-> successCount, total |-> Len(thePlan.tasks)]]

\* lines 464-490
generateSummary(thePlan, files, tasks) ==
  LET successCount == Cardinality({i \in 1..Len(tasks) : tasks[i].status = "completed"})
  IN [summary |-> thePlan.summary,
      tasks |-> [i \in 1..Len(tasks) |->
                   [done |-> tasks[i].status = "completed",
                    description |-> tasks[i].description]],
      fileCount |-> Len(files),
      created |-> SelectSeq(files, LAMBDA f : f.action = "create"),
      modified |-> SelectSeq(files, LAMBDA f : f.action = "modify"),
      closing |-> [allCompleted |-> successCount = Len(tasks),
                   successCount |-> successCount, total |-> Len(tasks)]]

-----------------------------------------------------------------------------
(* State *)

VARIABLES
  pc,                  \* where processRequest is: idle, planning (awaiting
                       \* createPlan's call), loop (at the head of the task
                       \* loop), generating (awaiting executeTask's call),
                       \* returned, rejected
  userMessage,         \* processRequest's argument
  existingFiles,       \* context.existingFiles
  planResponse,        \* what the planning call settled with (<<>> before)
  plan,                \* the plan being executed
  idx,                 \* position in plan.tasks of the loop's current task
  completedTasks,      \* completedTasks
  completedTaskOrders, \* completedTaskOrders
  generatedFiles,      \* this.generatedFiles, the File Registry
  events,              \* every event handed to eventCallback, in order
  calls,               \* every call of anthropic.messages.create, in order
  inFlight,            \* the calls (indices of calls) not yet settled
  returned,            \* the values processRequest calls on this instance
                       \* returned, in order (<<>> before the first return)
  consumer             \* what the instance's eventCallback belongs to and
                       \* how far that consumer has got

vars == <<pc, userMessage, existingFiles, planResponse, plan, idx, completedTasks,
          completedTaskOrders, generatedFiles, events, calls, inFlight, returned,
          consumer>>

\* The requests of the model: the user's message and the project's files.
Requests ==
  { [message |-> {}, files |-> <<>>],
    [message |-> {"sql"}, files |-> <<GeneratedFile(P1, Content(0, 0, 0), "modify")>>],
    [message |-> {"database", "server"}, files |-> <<>>] }

\* The consumer of the events.  kind: "none" (no eventCallback was given),
\* "sse" (the route handler's callback) or "generator"
\* (streamMultiAgentResponse).  resumed: the number of events the consumer
\* has got through (sse: callbacks that went on after their first await;
\* generator: events yielded).  allFiles, frames: the handler's allFiles and
\* the frames other than event frames it has written; hpc: where the code
\* after processRequest is.
\* Of the generator: buffer is its `events` array, resolveNext whether
\* resolveNext is set, raced the event the promise of the pending race was
\* resolved with (<<>>: none), yielded the events it has yielded.
Consumer(kind) ==
  [kind |-> kind, resumed |-> 0, allFiles |-> <<>>, frames |-> <<>>, hpc |-> "running",
   buffer |-> <<>>, resolveNext |-> FALSE, raced |-> <<>>, yielded |-> <<>>]

RECURSIVE Callback(_, _, _)
\* orchestrator.ts lines 502-509, for the events emitted from number i on:
\* the event resolves the pending race, or is pushed on the array
Callback(c, evs, i) ==
  IF i > Len(evs) THEN c
  ELSE Callback(IF c.resolveNext
                  THEN [c EXCEPT !.raced = <<evs[i]>>, !.resolveNext = FALSE]
                  ELSE [c EXCEPT !.buffer = Append(@, evs[i])],
                evs, i + 1)

\* lines 30-36: emit hands each event to eventCallback as it is emitted.
\* The handler's callback writes the event's frame, which the stream
\* keeps in the order of events; the generator's callback is Callback.
Delivered(c, before, after) ==
  IF c.kind = "generator" THEN Callback(c, after, Len(before) + 1) ELSE c

\* mutant: emit awaits the callback's promise
EmitReturned_Awaited(c, evs) == c.kind = "none" \/ c.resumed = Len(evs)

\* lines 30-36: emit calls eventCallback and drops what it returns; it has
\* returned whatever the consumer has done with the events so far
EmitReturned(c, evs) == TRUE

InitRun ==
  /\ pc = "idle"
  /\ \E req \in Requests : userMessage = req.message /\ existingFiles = req.files
  /\ planResponse = <<>>
  /\ plan = NoPlan
  /\ idx = 0
  /\ completedTasks = <<>>
  /\ completedTaskOrders = {}
  /\ generatedFiles = <<>>
  /\ events = <<>>
  /\ calls = <<>>
  /\ inFlight = {}
  /\ returned = <<>>

\* an orchestrator constructed without an eventCallback
Init == InitRun /\ consumer = Consumer("none")

\* A call of anthropic.messages.create.  reply: <<>> while the call is in
\* flight, then how a task's call settled (the planning call's outcome is
\* planResponse).
Call(kind, pos, known, at) ==
  [kind |-> kind, pos |-> pos, known |-> known, at |-> at, reply |-> <<>>]

\* lines 38-52 and 167-194: emit agent_started, issue the planning call
ProcessRequest ==
  /\ pc = "idle"
  /\ events' = Append(events, Event("agent_started", "orchestrator", <<>>,
                                    <<"Analyzing your request...">>, <<>>, 0))
  /\ calls' = Append(calls, Call("plan", 0, [i \in 1..Len(existingFiles) |->
                                               existingFiles[i].path], Len(events) + 1))
  /\ inFlight' = inFlight \cup {Len(calls) + 1}
  /\ pc' = "planning"
  /\ consumer' = Delivered(consumer, events, events')
  /\ UNCHANGED <<userMessage, existingFiles, planResponse, plan, idx, completedTasks,
                 completedTaskOrders, generatedFiles, returned>>

\* lines 52-74 and 196-245: the planning call settles; plan or fallback plan
PlanSettlesOn(responses) ==
  /\ pc = "planning"
  /\ EmitReturned(consumer, events)
  /\ \E resp \in responses :
       LET r == createPlan(resp)
           thePlan == IF r.ok THEN r.plan ELSE createFallbackPlan(userMessage)
       IN /\ planResponse' = <<resp>>
          /\ plan' = thePlan
          /\ events' = events
               \o (IF r.ok THEN <<>>
                   ELSE <<Event("agent_error", "orchestrator", <<>>,
                                <<"Planning failed", r.error>>, <<>>, 0)>>)
               \o <<Event("agent_completed", "orchestrator", <<>>,
                          <<"Created plan", Len(thePlan.tasks)>>, <<thePlan>>, 0)>>
  /\ inFlight' = inFlight \ {Len(calls)}
  /\ idx' = 1
  /\ completedTasks' = <<>>
  /\ completedTaskOrders' = {}
  /\ pc' = "loop"
  /\ consumer' = Delivered(consumer, events, events')
  /\ UNCHANGED <<userMessage, existingFiles, generatedFiles, calls, returned>>

PlanSettles == PlanSettlesOn(PlanResponses)

AtTask == pc = "loop" /\ idx <= Len(plan.tasks)

\* line 78 on a dependencies value that has no `every`: a TypeError that
\* nothing catches; processRequest's promise rejects
DependencyCheckThrows ==
  /\ AtTask
  /\ EmitReturned(consumer, events)
  /\ ~plan.tasks[idx].dependencies.isArray
  /\ pc' = "rejected"
  /\ UNCHANGED <<consumer, userMessage, existingFiles, planResponse, plan, idx, completedTasks,
                 completedTaskOrders, generatedFiles, events, calls, inFlight, returned>>

\* lines 82-90
SkipTask ==
  /\ AtTask
  /\ EmitReturned(consumer, events)
  /\ plan.tasks[idx].dependencies.isArray
  /\ ~DependenciesMet(plan.tasks[idx], completedTaskOrders)
  /\ events' = Append(events, Event("task_skipped", plan.tasks[idx].agent,
                                    <<plan.tasks[idx].order>>,
                                    <<"Skipped: Dependencies not met", plan.tasks[idx].description>>,
                                    <<>>, idx))
  /\ idx' = idx + 1
  /\ consumer' = Delivered(consumer, events, events')
  /\ UNCHANGED <<pc, userMessage, existingFiles, planResponse, plan, completedTasks,
                 completedTaskOrders, generatedFiles, calls, inFlight, returned>>

\* lines 92-103 and 347-352
StartEvents(task, pos) ==
  << Event("task_started", task.agent, <<task.order>>, <<task.description>>, <<>>, pos),
     Event("agent_started", task.agent, <<>>, <<"is working...">>, <<>>, pos),
     Event("agent_thinking", task.agent, <<>>, <<"Thinking...">>, <<>>, pos) >>

\* lines 108-158: merge the files, record the task, emit, go to the next task
RecordTask(result, emitted) ==
  LET task == plan.tasks[idx]
      merges == result.success /\ result.hasFiles
  IN /\ generatedFiles' = IF merges THEN MergeFiles(generatedFiles, result.files, 1)
                          ELSE generatedFiles
     /\ completedTasks' = Append(completedTasks,
                                 [id |-> task.order, pos |-> idx,
                                  description |-> task.description,
                                  assignedTo |-> task.agent,
                                  status |-> TaskStatus(result), result |-> result])
     /\ completedTaskOrders' = AddCompletedOrder(completedTaskOrders, task, result)
     /\ events' = events \o emitted
          \o (IF merges THEN FileEvents(result.files, task, idx) ELSE <<>>)
          \o << Event("task_completed", task.agent, <<task.order>>,
                      IF result.success THEN <<"Completed", task.description>>
                      ELSE <<"Failed", result.error>>,
                      <<result>>, idx),
                Event("agent_completed", task.agent, <<>>, <<"finished">>, <<>>, idx) >>
     /\ idx' = idx + 1
     /\ pc' = "loop"

KnownPaths ==
  [i \in 1..Len(existingFiles) |-> existingFiles[i].path]
  \o [i \in 1..Len(generatedFiles) |-> generatedFiles[i].path]

\* lines 92-106 and 316-364: dependencies met; the task's call is issued
StartTask ==
  /\ AtTask
  /\ EmitReturned(consumer, events)
  /\ plan.tasks[idx].dependencies.isArray
  /\ DependenciesMet(plan.tasks[idx], completedTaskOrders)
  /\ plan.tasks[idx].files.isArray
  /\ events' = events \o StartEvents(plan.tasks[idx], idx)
  /\ calls' = Append(calls, Call("task", idx, KnownPaths, Len(events) + 3))
  /\ inFlight' = inFlight \cup {Len(calls) + 1}
  /\ pc' = "generating"
  /\ consumer' = Delivered(consumer, events, events')
  /\ UNCHANGED <<userMessage, existingFiles, planResponse, plan, idx, completedTasks,
                 completedTaskOrders, generatedFiles, returned>>

\* lines 92-106, 347-361 and 391-396: task.files has no `join`; building the
\* prompt throws inside the try before any call is made, and the catch turns
\* the TypeError into a failed result
StartTaskPromptThrows ==
  /\ AtTask
  /\ EmitReturned(consumer, events)
  /\ plan.tasks[idx].dependencies.isArray
  /\ DependenciesMet(plan.tasks[idx], completedTaskOrders)
  /\ ~plan.tasks[idx].files.isArray
  /\ RecordTask(Failure(JoinTypeError, FALSE), StartEvents(plan.tasks[idx], idx))
  /\ consumer' = Delivered(consumer, events, events')
  /\ UNCHANGED <<userMessage, existingFiles, planResponse, plan, calls, inFlight, returned>>

\* lines 366-396 and 108-159: the task's call settles with one of outcomes
TaskSettlesOn(outcomes) ==
  /\ pc = "generating"
  /\ EmitReturned(consumer, events)
  /\ \E outcome \in outcomes :
       /\ RecordTask(TaskResultOf(outcome, idx, existingFiles, generatedFiles),
                     IF outcome.kind = "text"
                       THEN <<Event("agent_writing", plan.tasks[idx].agent, <<>>,
                                    <<"Writing code...">>, <<>>, idx)>>
                       ELSE <<>>)
       /\ calls' = [calls EXCEPT ![Len(calls)].reply = <<outcome>>]
  /\ inFlight' = inFlight \ {Len(calls)}
  /\ consumer' = Delivered(consumer, events, events')
  /\ UNCHANGED <<userMessage, existingFiles, planResponse, plan, returned>>

TaskSettles == TaskSettlesOn(GenOutcomes)

\* lines 161-164
Return ==
  /\ pc = "loop"
  /\ EmitReturned(consumer, events)
  /\ idx > Len(plan.tasks)
  /\ returned' = Append(returned,
                        [plan |-> plan, files |-> generatedFiles,
                         response |-> generateSummary(plan, generatedFiles, completedTasks)])
  /\ pc' = "returned"
  /\ UNCHANGED <<consumer, userMessage, existingFiles, planResponse, plan, idx, completedTasks,
                 completedTaskOrders, generatedFiles, events, calls, inFlight>>

Next ==
  \/ ProcessRequest
  \/ PlanSettles
  \/ DependencyCheckThrows
  \/ SkipTask
  \/ StartTask
  \/ StartTaskPromptThrows
  \/ TaskSettles
  \/ Return

Spec == Init /\ [][Next]_vars

-----------------------------------------------------------------------------
(* The same orchestrator instance used for a further request.  The class  *)
(* exports processRequest as a public method that may be called again:    *)
(* its locals (plan, completedTasks, completedTaskOrders) are new in each *)
(* call, the instance's fields (context, generatedFiles, eventCallback)   *)
(* are those the constructor set and earlier calls left.                  *)

\* Bounds of this specification: calls on one instance, tasks per plan.
MaxInvocations == 2
ReuseMaxTasks == 1

\* lines 38-42: processRequest is called again once the previous call returned
InvokeAgain ==
  /\ pc = "returned"
  /\ Len(returned) < MaxInvocations
  /\ pc' = "idle"
  /\ userMessage' \in {req.message : req \in Requests}
  /\ planResponse' = <<>>
  /\ plan' = NoPlan
  /\ idx' = 0
  /\ completedTasks' = <<>>
  /\ completedTaskOrders' = {}
  /\ UNCHANGED <<consumer, existingFiles, generatedFiles, events, calls, inFlight, returned>>

InitReuse == Init /\ existingFiles = <<>>

\* lines 47-56 for the plans of at most ReuseMaxTasks tasks
PlanSettlesShort == PlanSettles /\ Len(plan'.tasks) <= ReuseMaxTasks

NextReuse ==
  \/ ProcessRequest
  \/ PlanSettlesShort
  \/ DependencyCheckThrows
  \/ SkipTask
  \/ StartTask
  \/ StartTaskPromptThrows
  \/ TaskSettles
  \/ Return
  \/ InvokeAgain

SpecReuse == InitReuse /\ [][NextReuse]_vars

-----------------------------------------------------------------------------
(* Replies that write one path more than once.  A plan of one task is     *)
(* enough for a reply to hold two blocks of the same path.                *)

RewriteResponses ==
  { <<Block("ok", P1)>>,
    <<Block("ok", P1), Block("ok", P1)>>,
    <<Block("ok", P2), Block("ok", P1), Block("ok", P2)>> }

RewriteOutcomes ==
  {[kind |-> "throws", error |-> ConnectionError, blocks |-> <<>>]}
  \cup {[kind |-> "text", error |-> "", blocks |-> r] : r \in RewriteResponses}

TaskSettlesRewrite == TaskSettlesOn(RewriteOutcomes)

NextRewrite ==
  \/ ProcessRequest
  \/ PlanSettlesShort
  \/ DependencyCheckThrows
  \/ SkipTask
  \/ StartTask
  \/ StartTaskPromptThrows
  \/ TaskSettlesRewrite
  \/ Return

SpecRewrite == Init /\ [][NextRewrite]_vars

-----------------------------------------------------------------------------
(* The consumers of the events: the route handler that writes an SSE      *)
(* stream (POST), and the generator streamMultiAgentResponse.  The        *)
(* handler's callback is async and emit does not await it: up to its      *)
(* first await it runs inside emit, where writer.write queues the event's *)
(* frame, so the event frames are in the stream in the order of events;   *)
(* the rest of the callback runs when that write has resolved, which      *)
(* takes the client to have read the stream up to the frame.              *)

\* Bound: tasks in a planner's reply of this specification.
StreamMaxTasks == 2

StreamPlanResponses ==
  {r \in PlanResponses :
     \/ r.kind = "throws"
     \/ /\ r.kind = "text" /\ r.fence = "body" /\ r.brace
        /\ r.data.syntaxOk /\ r.data.hasTasks
        /\ Len(r.data.tasks) \in 1..StreamMaxTasks
        /\ \A i \in 1..Len(r.data.tasks) :
             r.data.tasks[i].description \in {"plain", "deps-number", "files-string"}}

StreamOutcomes ==
  {[kind |-> "throws", error |-> ConnectionError, blocks |-> <<>>]}
  \cup {[kind |-> "text", error |-> "", blocks |-> r] :
          r \in {<<Block("ok", P1)>>, <<Block("ok", P1), Block("ok", P2)>>}}

PlanSettlesStream == PlanSettlesOn(StreamPlanResponses)
TaskSettlesStream == TaskSettlesOn(StreamOutcomes)

\* A frame of the stream other than an event frame.  by: "callback" or
\* "handler"; content: the text of a text frame; at: the number of event
\* frames queued before it.
Frame(type, by, files, content, at) ==
  [type |-> type, by |-> by, files |-> files, content |-> content, at |-> at]

\* mutant: the handler does not await its writes
WriteResolved_NotAwaited(c, evs) == TRUE

\* part_014 lines 126, 136, 156, 160: await writer.write(...).  Writes
\* resolve in the order they were queued, so when a write of the handler
\* has resolved, the write of every event frame before it has, and the
\* callbacks awaiting those have gone on.
WriteResolved(c, evs) == c.resumed = Len(evs)

IsFileEvent(e) == e.type \in {"file_created", "file_modified"}

\* part_014 line 106: !allFiles.some((f) => f.path === file.path)
IsNewPath(allFiles, file) == \A i \in 1..Len(allFiles) : allFiles[i].path # file.path

\* part_014 lines 98-118: the callback of the next event goes on after its
\* first write resolved
CallbackResumes ==
  /\ consumer.kind = "sse"
  /\ consumer.resumed < Len(events)
  /\ LET e == events[consumer.resumed + 1]
         sends == IsFileEvent(e) /\ IsNewPath(consumer.allFiles, e.data[1])
         files == Append(consumer.allFiles, e.data[1])
     IN consumer' = [consumer EXCEPT
                       !.resumed = @ + 1,
                       !.allFiles = IF sends THEN files ELSE @,
                       !.frames = IF sends
                                    THEN Append(@, Frame("files", "callback", files, <<>>,
                                                         Len(events)))
                                    ELSE @]
  /\ UNCHANGED <<pc, userMessage, existingFiles, planResponse, plan, idx, completedTasks,
                 completedTaskOrders, generatedFiles, events, calls, inFlight, returned>>

\* part_014 lines 123-133: processRequest returned; the text frame is queued
HandlerSendsText ==
  /\ consumer.kind = "sse"
  /\ pc = "returned"
  /\ consumer.hpc = "running"
  /\ consumer' = [consumer EXCEPT
                    !.hpc = "text",
                    !.frames = Append(@, Frame("text", "handler", <<>>,
                                               <<returned[Len(returned)].response>>,
                                               Len(events)))]
  /\ UNCHANGED <<pc, userMessage, existingFiles, planResponse, plan, idx, completedTasks,
                 completedTaskOrders, generatedFiles, events, calls, inFlight, returned>>

\* part_014 lines 135-143: the text frame's write resolved (the client has
\* read up to it, and every callback before it has gone on); result.files
\* is queued
HandlerSendsFiles ==
  /\ consumer.kind = "sse"
  /\ consumer.hpc = "text"
  /\ WriteResolved(consumer, events)
  /\ consumer' = [consumer EXCEPT
                    !.hpc = "files",
                    !.frames = Append(@, Frame("files", "handler",
                                               returned[Len(returned)].files, <<>>,
                                               Len(events)))]
  /\ UNCHANGED <<pc, userMessage, existingFiles, planResponse, plan, idx, completedTasks,
                 completedTaskOrders, generatedFiles, events, calls, inFlight, returned>>

\* part_014 lines 145-156 and 167-169: saved, [DONE] written, writer closed
HandlerCloses ==
  /\ consumer.kind = "sse"
  /\ consumer.hpc = "files"
  /\ WriteResolved(consumer, events)
  /\ consumer' = [consumer EXCEPT
                    !.hpc = "closed",
                    !.frames = Append(@, Frame("done", "handler", <<>>, <<>>, Len(events)))]
  /\ UNCHANGED <<pc, userMessage, existingFiles, planResponse, plan, idx, completedTasks,
                 completedTaskOrders, generatedFiles, events, calls, inFlight, returned>>

\* part_014 lines 157-166: processRequest rejected; the error frame is queued
HandlerSendsError ==
  /\ consumer.kind = "sse"
  /\ pc = "rejected"
  /\ consumer.hpc = "running"
  /\ consumer' = [consumer EXCEPT
                    !.hpc = "error",
                    !.frames = Append(@, Frame("error", "handler", <<>>, <<>>, Len(events)))]
  /\ UNCHANGED <<pc, userMessage, existingFiles, planResponse, plan, idx, completedTasks,
                 completedTaskOrders, generatedFiles, events, calls, inFlight, returned>>

\* part_014 lines 160-169: the error frame's write resolved; writer closed
HandlerClosesAfterError ==
  /\ consumer.kind = "sse"
  /\ consumer.hpc = "error"
  /\ WriteResolved(consumer, events)
  /\ consumer' = [consumer EXCEPT !.hpc = "closed"]
  /\ UNCHANGED <<pc, userMessage, existingFiles, planResponse, plan, idx, completedTasks,
                 completedTaskOrders, generatedFiles, events, calls, inFlight, returned>>

\* The generator runs when its reader asks for the next value, from one
\* yield or await to the next; hpc is where it stands: "running" (at the top
\* of the loop), "waiting" (in the await of the race), "closed" (finished)
\* or "threw".  processRequest is called, and runs to its first await,
\* before the loop is entered.
GeneratorUnchanged ==
  UNCHANGED <<pc, userMessage, existingFiles, planResponse, plan, idx, completedTasks,
              completedTaskOrders, generatedFiles, events, calls, inFlight, returned>>

\* orchestrator.ts lines 515-517: events.length > 0; yield events.shift()
GeneratorYields ==
  /\ consumer.kind = "generator"
  /\ pc # "idle"
  /\ consumer.hpc = "running"
  /\ consumer.buffer # <<>>
  /\ consumer' = [consumer EXCEPT
                    !.yielded = Append(@, Head(consumer.buffer)),
                    !.buffer = Tail(@),
                    !.resumed = @ + 1]
  /\ GeneratorUnchanged

\* lines 518-525: the array is empty; resolveNext is set and the race awaited
GeneratorAwaits ==
  /\ consumer.kind = "generator"
  /\ pc # "idle"
  /\ consumer.hpc = "running"
  /\ consumer.buffer = <<>>
  /\ consumer' = [consumer EXCEPT !.hpc = "waiting", !.resolveNext = TRUE, !.raced = <<>>]
  /\ GeneratorUnchanged

\* lines 520-536: an event resolved the race; it is yielded
GeneratorResumes ==
  /\ consumer.kind = "generator"
  /\ consumer.hpc = "waiting"
  /\ consumer.raced # <<>>
  /\ consumer' = [consumer EXCEPT
                    !.hpc = "running",
                    !.yielded = Append(@, consumer.raced[1]),
                    !.raced = <<>>,
                    !.resumed = @ + 1]
  /\ GeneratorUnchanged

\* lines 520-546: no event resolved the race and resultPromise settled.
\* Fulfilled: the race gives null, what is left in the array is yielded,
\* then the final agent_completed, and the generator finishes.  Rejected:
\* the await of the race throws.
GeneratorEnds ==
  /\ consumer.kind = "generator"
  /\ consumer.hpc = "waiting"
  /\ consumer.raced = <<>>
  /\ pc \in {"returned", "rejected"}
  /\ consumer' =
       IF pc = "returned"
         THEN [consumer EXCEPT
                 !.hpc = "closed",
                 !.yielded = @ \o consumer.buffer,
                 !.resumed = @ + Len(consumer.buffer),
                 !.buffer = <<>>,
                 !.frames = Append(@, Frame("agent_completed", "generator",
                                            returned[Len(returned)].files,
                                            <<returned[Len(returned)].response,
                                              returned[Len(returned)].plan>>,
                                            Len(events)))]
         ELSE [consumer EXCEPT !.hpc = "threw"]
  /\ GeneratorUnchanged

\* the steps of processRequest
OrchestratorStep ==
  \/ ProcessRequest
  \/ PlanSettlesStream
  \/ DependencyCheckThrows
  \/ SkipTask
  \/ StartTask
  \/ StartTaskPromptThrows
  \/ TaskSettlesStream
  \/ Return

InitStream ==
  /\ InitRun
  /\ \E kind \in {"sse", "generator"} : consumer = Consumer(kind)

NextStream ==
  \/ OrchestratorStep
  \/ CallbackResumes
  \/ HandlerSendsText
  \/ HandlerSendsFiles
  \/ HandlerCloses
  \/ HandlerSendsError
  \/ HandlerClosesAfterError
  \/ GeneratorYields
  \/ GeneratorAwaits
  \/ GeneratorResumes
  \/ GeneratorEnds

SpecStream == InitStream /\ [][NextStream]_vars

-----------------------------------------------------------------------------
(* Vocabulary of the properties *)

Positions == 1..Len(plan.tasks)
Recorded == 1..Len(completedTasks)

\* the loop has emitted task_started for the task at position p
Executed(p) == \E k \in 1..Len(events) : events[k].type = "task_started" /\ events[k].pos = p

\* the loop has emitted task_skipped for the task at position p
Skipped(p) == \E k \in 1..Len(events) : events[k].type = "task_skipped" /\ events[k].pos = p

\* the CompletedTask entries of the task at position p
EntriesOf(p) == {k \in Recorded : completedTasks[k].pos = p}

\* the orders of the tasks listed before position p that are recorded as
\* completed: the completed-successfully set when the loop reaches p
SuccessBefore(p) ==
  {completedTasks[k].id : k \in {j \in Recorded : /\ completedTasks[j].pos < p
                                                  /\ completedTasks[j].status = "completed"}}

\* the loop has gone past the dependency check of position p
Reached(p) == p < idx \/ (p = idx /\ pc = "generating")

DepsOf(p) == plan.tasks[p].dependencies

\* the task's generation call threw (a service error or an abort)
CallThrew(k) == completedTasks[k].result.error \in {ConnectionError, RequestAborted}

TaskCalls(p) == {c \in 1..Len(calls) : calls[c].kind = "task" /\ calls[c].pos = p}

-----------------------------------------------------------------------------
(* C1: a task is executed (task_started emitted, executeTask called) only
   if every order number in its dependencies is, when the loop reaches it,
   the order of a task already recorded as completed; a task whose
   dependencies are not met then is skipped (task_skipped emitted), is not
   executed and never gets a CompletedTask entry, failed or otherwise. *)
C1_ExecutedOnlyIfDependenciesCompleted ==
  \A p \in Positions :
    /\ Executed(p) => DepsOf(p).isArray /\ DepsOf(p).vals \subseteq SuccessBefore(p)
    /\ EntriesOf(p) # {} => Executed(p)
    /\ (Reached(p) /\ DepsOf(p).isArray /\ ~(DepsOf(p).vals \subseteq SuccessBefore(p)))
         => Skipped(p) /\ ~Executed(p) /\ EntriesOf(p) = {} /\ TaskCalls(p) = {}

\* A run that ended in which one task with dependencies ran after its
\* dependency completed and another task with dependencies was skipped.
C1_Witness ==
  /\ pc = "returned"
  /\ \E p \in Positions : DepsOf(p).vals # {} /\ Executed(p) /\ TaskCalls(p) # {}
  /\ \E q \in Positions : DepsOf(q).vals # {} /\ Skipped(q)

-----------------------------------------------------------------------------
(* C2: when a task's generation call throws, the task is recorded with
   status failed, a task_completed event with a failure message is emitted
   for it, and every task of the plan that has the failed task's order
   number in its dependencies is skipped. *)
C2_DependentsOfFailedTaskSkipped ==
  pc = "returned" =>
    \A k \in Recorded : CallThrew(k) =>
      LET p == completedTasks[k].pos IN
      /\ completedTasks[k].status = "failed"
      /\ \E e \in 1..Len(events) :
           /\ events[e].type = "task_completed" /\ events[e].pos = p
           /\ events[e].message = <<"Failed", completedTasks[k].result.error>>
      /\ \A q \in Positions :
           (DepsOf(q).isArray /\ plan.tasks[p].order \in DepsOf(q).vals)
             => Skipped(q) /\ ~Executed(q)

-----------------------------------------------------------------------------
(* C3: whenever the planner's reply is malformed (it has neither a fenced
   json block nor a brace-delimited object with a tasks key, or the
   extracted text does not parse), createPlan fails (the orchestrator's
   agent_error is emitted) and the plan processRequest executes is the
   fallback plan: it is not empty and has a task whose agent is ui. *)
Malformed(resp) ==
  /\ resp.kind = "text"
  /\ \/ resp.fence = "none" /\ ~resp.brace
     \/ HasJsonContent(resp) /\ ~resp.data.syntaxOk

PlanSettled == pc \notin {"idle", "planning"}

PlanningFailed == \E e \in 1..Len(events) : events[e].type = "agent_error"

C3_MalformedPlanFallsBack ==
  (PlanSettled /\ Malformed(planResponse[1])) =>
    /\ PlanningFailed
    /\ Len(plan.tasks) >= 1
    /\ \E p \in Positions : plan.tasks[p].agent = "ui"

\* A run on a malformed planner reply whose fallback plan has several tasks
\* and whose ui task was executed.
C3_Witness ==
  /\ pc = "returned"
  /\ Malformed(planResponse[1])
  /\ Len(plan.tasks) > 1
  /\ \E p \in Positions : plan.tasks[p].agent = "ui" /\ Executed(p)

-----------------------------------------------------------------------------
(* C4: the File Registry never holds two entries with the same path; a
   path that tasks of the run produced has exactly one entry, and the entry
   holds what the last of those tasks last wrote for the path. *)
RegistryEntries(path) == {i \in 1..Len(generatedFiles) : generatedFiles[i].path = path}

\* the recorded tasks that succeeded with a file for the path
Writers(path) ==
  {k \in Recorded : /\ completedTasks[k].status = "completed"
                    /\ path \in PathsOf(completedTasks[k].result.files)}

Last(S) == CHOOSE m \in S : \A n \in S : n <= m

LastWrite(k, path) ==
  LET files == completedTasks[k].result.files
  IN files[Last({i \in 1..Len(files) : files[i].path = path})]

C4_OneEntryPerPathLatestContent ==
  \A path \in Paths :
    /\ Cardinality(RegistryEntries(path)) <= 1
    /\ Writers(path) # {} =>
         /\ Cardinality(RegistryEntries(path)) = 1
         /\ \A i \in RegistryEntries(path) :
              /\ generatedFiles[i] = LastWrite(Last(Writers(path)), path)
              /\ generatedFiles[i].content.task = completedTasks[Last(Writers(path))].pos

\* Two tasks of one run both produced the same path.
C4_Witness ==
  \E path \in Paths : Cardinality(Writers(path)) >= 2 /\ pc = "returned"

-----------------------------------------------------------------------------
(* C5: for every file extracted from a task's reply, action is modify
   exactly if the path is one of the existing files supplied with the
   request or was merged into the File Registry by an earlier task of the
   run; otherwise it is create. *)
MergedBefore(k, path) == \E j \in Writers(path) : j < k

C5_ActionModifyIffKnown ==
  \A k \in Recorded :
    LET files == completedTasks[k].result.files IN
    \A i \in 1..Len(files) :
      /\ files[i].action \in {"create", "modify"}
      /\ files[i].action = "modify"
           <=> (files[i].path \in PathsOf(existingFiles) \/ MergedBefore(k, files[i].path))

\* One run with a created file, a file modified because the request
\* supplied it, and a file modified because an earlier task produced it.
C5_Witness ==
  /\ \E k \in Recorded : \E i \in 1..Len(completedTasks[k].result.files) :
       LET f == completedTasks[k].result.files[i] IN
       f.action = "create" /\ f.path \notin PathsOf(existingFiles)
  /\ \E k \in Recorded : \E i \in 1..Len(completedTasks[k].result.files) :
       LET f == completedTasks[k].result.files[i] IN
       f.action = "modify" /\ f.path \in PathsOf(existingFiles)
  /\ \E k \in Recorded : \E i \in 1..Len(completedTasks[k].result.files) :
       LET f == completedTasks[k].result.files[i] IN
       f.action = "modify" /\ f.path \notin PathsOf(existingFiles)
                           /\ MergedBefore(k, f.path)

-----------------------------------------------------------------------------
(* C6: processRequest never rejects: whatever the planner's reply
   (structured, unstructured, unparsable, a service failure) and whatever
   the tasks' outcomes, the call ends by returning {plan, files, response}. *)
C6_NeverRejects == pc # "rejected"

-----------------------------------------------------------------------------
(* C7: after a task failed because its generation call threw, execution
   continues: every task listed later whose dependencies are all orders of
   tasks completed before it (a task without dependencies included) is
   executed by the time the run has ended. *)
RunEnded == pc \in {"returned", "rejected"}

C7_LaterTasksStillExecuted ==
  RunEnded =>
    \A k \in Recorded : (completedTasks[k].status = "failed" /\ CallThrew(k)) =>
      \A q \in Positions :
        (/\ q > completedTasks[k].pos
         /\ DepsOf(q).isArray
         /\ DepsOf(q).vals \subseteq SuccessBefore(q)) => Executed(q)

-----------------------------------------------------------------------------
(* C8: when the generation call of a task is aborted from outside, the task
   gets a failed result and execution stops: no task listed after it is
   attempted (no later task_started, no later generation call). *)
C8_AbortStopsExecution ==
  \A k \in Recorded : completedTasks[k].result.error = RequestAborted =>
    /\ completedTasks[k].status = "failed"
    /\ \A q \in Positions : q > completedTasks[k].pos => ~Executed(q) /\ TaskCalls(q) = {}

-----------------------------------------------------------------------------
(* C9: no retries: a plan entry yields at most one generation call and at
   most one CompletedTask, the run makes one planning call, and a run that
   returned made exactly one generation call for each executed task and
   none for the others. *)
PlanCalls == {c \in 1..Len(calls) : calls[c].kind = "plan"}

C9_OneCallPerExecutedTask ==
  /\ Cardinality(PlanCalls) <= 1
  /\ \A p \in Positions :
       /\ Cardinality(TaskCalls(p)) <= 1
       /\ Cardinality(EntriesOf(p)) <= 1
  /\ pc = "returned" =>
       /\ Cardinality(PlanCalls) = 1
       /\ \A p \in Positions :
            Cardinality(TaskCalls(p)) = (IF Executed(p) THEN 1 ELSE 0)

-----------------------------------------------------------------------------
(* C10: tasks never overlap: at most one call is in flight, and while a
   task's generation call is in flight every task executed before it has
   its result recorded (its task_completed emitted before the call was
   issued), and, if it succeeded, its order is in the completed set and its
   files are in the File Registry and were among the files the call was
   issued with. *)
C10_TasksStrictlySequential ==
  /\ Cardinality(inFlight) <= 1
  /\ pc = "generating" =>
       /\ inFlight = {Len(calls)}
       /\ calls[Len(calls)].kind = "task" /\ calls[Len(calls)].pos = idx
       /\ \A q \in 1..(idx - 1) : Executed(q) =>
            /\ Cardinality(EntriesOf(q)) = 1
            /\ \E e \in 1..calls[Len(calls)].at :
                 events[e].type = "task_completed" /\ events[e].pos = q
            /\ \A k \in EntriesOf(q) : completedTasks[k].status = "completed" =>
                 /\ plan.tasks[q].order \in completedTaskOrders
                 /\ PathsOf(completedTasks[k].result.files) \subseteq PathsOf(generatedFiles)
                 /\ \A path \in PathsOf(completedTasks[k].result.files) :
                      \E i \in 1..Len(calls[Len(calls)].known) :
                        calls[Len(calls)].known[i] = path

\* A generation call in flight after an earlier task succeeded with files
\* and another earlier task failed.
C10_Witness ==
  /\ pc = "generating"
  /\ \E k \in Recorded : completedTasks[k].status = "completed"
  /\ \E k \in Recorded : completedTasks[k].status = "failed"

-----------------------------------------------------------------------------
(* C11: each processRequest invocation owns its File Registry and its
   completed-task list, both empty when it starts: whatever instance it
   runs on, the registry is empty while it plans, and the files it returns
   are files its own successful tasks produced. *)
C11_InvocationOwnsRegistry ==
  /\ pc \in {"idle", "planning"} => generatedFiles = <<>> /\ completedTasks = <<>>
  /\ pc = "returned" =>
       \A i \in 1..Len(returned[Len(returned)].files) :
         Writers(returned[Len(returned)].files[i].path) # {}

-----------------------------------------------------------------------------
(* C12: for every executed task the events come in this order: task_started
   and agent_started before the generation call; after the call one file
   event for each merged file, in the order of the merge; then exactly one
   task_completed, with the completion message on success and the failure
   message on failure; then exactly one agent_completed.  All events of one
   task precede the first event of the next task. *)
EventsAt(p, types) ==
  {e \in 1..Len(events) : events[e].pos = p /\ events[e].type \in types}

\* the events emitted while the loop was at position p
TaskBlock(p) == SelectSeq(events, LAMBDA e : e.pos = p)

\* the last event emitted before call c was issued
LastEventBefore(c) == events[calls[c].at]

C12_TaskEventOrder ==
  /\ \A i \in 1..(Len(events) - 1) : events[i].pos <= events[i + 1].pos
  /\ \A k \in Recorded :
       LET p == completedTasks[k].pos
           r == completedTasks[k].result
           block == TaskBlock(p)
           n == Len(block)
           At(types) == {i \in 1..n : block[i].type \in types}
           files == IF r.success THEN r.files ELSE <<>>
           firstFile == n - 1 - Len(files)
       IN /\ At({"task_started"}) = {1}
          /\ At({"agent_started"}) = {2}
          /\ At({"file_created", "file_modified"}) = firstFile..(n - 2)
          /\ At({"task_completed"}) = {n - 1}
          /\ At({"agent_completed"}) = {n}
          /\ \A c \in TaskCalls(p) :
               /\ LastEventBefore(c) = block[3]
               /\ At({"agent_thinking"}) = {3}
               /\ 3 < firstFile
          /\ \A j \in 1..Len(files) :
               /\ block[firstFile + j - 1].data[1] = files[j]
               /\ block[firstFile + j - 1].type = "file_created"
                    <=> files[j].action = "create"
          /\ block[n - 1].message =
               (IF completedTasks[k].status = "completed"
                  THEN <<"Completed", completedTasks[k].description>>
                  ELSE <<"Failed", r.error>>)
  /\ pc = "generating" =>
       LET block == TaskBlock(idx) IN
       /\ {i \in 1..Len(block) : block[i].type = "task_started"} = {1}
       /\ {i \in 1..Len(block) : block[i].type = "agent_started"} = {2}
       /\ Len(block) = 3
       /\ LastEventBefore(Len(calls)) = block[3]
       /\ \A i \in 1..Len(block) :
            block[i].type \notin {"file_created", "file_modified", "task_completed",
                                  "agent_completed"}

\* A run that ended in which one task's call returned two files and the
\* next task's call threw.
C12_Witness ==
  /\ pc = "returned"
  /\ \E k \in Recorded :
       /\ k + 1 \in Recorded
       /\ completedTasks[k].result.success
       /\ Len(completedTasks[k].result.files) = 2
       /\ TaskCalls(completedTasks[k].pos) # {}
       /\ CallThrew(k + 1)

-----------------------------------------------------------------------------
(* C13: a file path yields exactly one file_created or file_modified
   event, emitted by the task that first merges the path into the File
   Registry; no later write, of this or of another path, adds a file event
   for it. *)
FileEventsOf(path) ==
  {e \in 1..Len(events) : /\ events[e].type \in {"file_created", "file_modified"}
                          /\ events[e].data[1].path = path}

C13_OneFileEventPerPath ==
  (pc \in {"loop", "returned"}) =>
    \A path \in Paths :
      /\ path \in PathsOf(generatedFiles) <=> FileEventsOf(path) # {}
      /\ Cardinality(FileEventsOf(path)) <= 1
      /\ \A e \in FileEventsOf(path) :
           \A k \in Writers(path) : events[e].pos <= completedTasks[k].pos

-----------------------------------------------------------------------------
(* C14: a task whose dependencies are not met produces exactly one
   task_skipped event and has no other effect: no other event is emitted
   for it, no generation call is made for it, it gets no CompletedTask
   entry, no file of the File Registry comes from it, and its order never
   enters the completed set. *)
C14_SkippedTaskHasNoOtherEffect ==
  \A p \in Positions : Skipped(p) =>
    /\ Cardinality(EventsAt(p, {"task_skipped"})) = 1
    /\ {e \in 1..Len(events) : events[e].pos = p} = EventsAt(p, {"task_skipped"})
    /\ TaskCalls(p) = {}
    /\ EntriesOf(p) = {}
    /\ \A i \in 1..Len(generatedFiles) : generatedFiles[i].content.task # p
    /\ plan.tasks[p].order \notin completedTaskOrders

-----------------------------------------------------------------------------
(* C15: tasks are processed in the plan's listed sequence, not sorted by
   order, and each task's dependencies are checked exactly once, at its
   position: the loop's decisions (task_started or task_skipped) come one
   per position, in increasing position.  Consequently a task whose
   dependencies name the order of a task listed after it, or its own
   order, is never executed in the run. *)
Decisions == SelectSeq(events, LAMBDA e : e.type \in {"task_started", "task_skipped"})

C15_ListedSequenceNoForwardDependency ==
  /\ \A i \in 1..Len(Decisions) : Decisions[i].pos = i
  /\ \A p \in Positions :
       (\E q \in Positions : q >= p /\ plan.tasks[q].order \in DepsOf(p).vals)
         => ~Executed(p)

-----------------------------------------------------------------------------
(* C16: a task whose reply yields no extracted file gets a result with
   success false and the no-files-generated error text, which differs from
   the error text of a call that threw; the task is recorded as failed, its
   order is not added to the completed set by it, and every task that has
   its order in its dependencies is skipped. *)
NoFilesExtracted(k) == completedTasks[k].result.error = NoFilesError

C16_ZeroFilesIsFailure ==
  /\ NoFilesError \notin {ConnectionError, RequestAborted}
  /\ \A k \in Recorded :
       TaskCalls(completedTasks[k].pos) # {} =>
         (Len(completedTasks[k].result.files) = 0 /\ ~CallThrew(k)
            <=> NoFilesExtracted(k))
  /\ \A k \in Recorded : NoFilesExtracted(k) =>
       LET p == completedTasks[k].pos IN
       /\ ~completedTasks[k].result.success
       /\ completedTasks[k].status = "failed"
       /\ plan.tasks[p].order \in completedTaskOrders
            => \E j \in Recorded : /\ completedTasks[j].pos # p
                                   /\ completedTasks[j].status = "completed"
                                   /\ completedTasks[j].id = plan.tasks[p].order
       /\ pc = "returned" =>
            \A q \in Positions :
              (DepsOf(q).isArray /\ plan.tasks[p].order \in DepsOf(q).vals)
                => Skipped(q) /\ ~Executed(q)

-----------------------------------------------------------------------------
(* C17: the File Registry's upsert is idempotent on path: when a path is
   written more than once in a run, by one task's reply or by the replies
   of different tasks, the registry afterwards holds exactly one entry for
   the path, with the content of the latest write, and the action of every
   write after the first is modify. *)
WritesOf(k, path) ==
  {i \in 1..Len(completedTasks[k].result.files) :
     completedTasks[k].result.files[i].path = path}

C17_UpsertIdempotentOnPath ==
  \A path \in Paths : Writers(path) # {} =>
    /\ Cardinality(RegistryEntries(path)) = 1
    /\ \A i \in RegistryEntries(path) :
         generatedFiles[i].content = LastWrite(Last(Writers(path)), path).content
    /\ \A k \in Writers(path) : \A i \in WritesOf(k, path) :
         (MergedBefore(k, path) \/ \E h \in WritesOf(k, path) : h < i)
           => completedTasks[k].result.files[i].action = "modify"

-----------------------------------------------------------------------------
(* C18: in every plan createPlan or the fallback heuristic produces, each
   task's order is a positive integer that no other task of the plan has;
   a raw task entry without an order gets its 1-based position in the
   task list. *)
C18_OrdersPositiveAndUnique ==
  PlanSettled =>
    /\ \A p \in Positions : plan.tasks[p].order \in Nat \ {0}
    /\ \A p, q \in Positions : p # q => plan.tasks[p].order # plan.tasks[q].order
    /\ createPlan(planResponse[1]).ok =>
         \A p \in Positions :
           planResponse[1].data.tasks[p].order = 0 => plan.tasks[p].order = p

-----------------------------------------------------------------------------
(* C19: event emission never blocks task execution.  emit hands the event
   to the consumer and returns without waiting for it, so as long as
   processRequest has not settled, its next step can be taken whatever the
   consumer (the SSE handler's callback, the generator's reader) has got
   through, even nothing at all; and when processRequest returns, every
   task of the plan has been dealt with. *)
Settled == pc \in {"returned", "rejected"}

C19_EmitNeverWaitsForConsumer ==
  /\ ~Settled => ENABLED OrchestratorStep
  /\ pc = "returned" => Len(Decisions) = Len(plan.tasks)

\* processRequest has returned files although the SSE client has read
\* nothing: no callback has gone past its first await.
C19_Witness ==
  /\ pc = "returned"
  /\ consumer.kind = "sse"
  /\ consumer.resumed = 0
  /\ Len(events) > Len(plan.tasks)
  /\ Len(returned[1].files) > 0

-----------------------------------------------------------------------------
(* C20: in the SSE handler a files frame carrying the cumulative list of
   generated files is written every time the list changes, when a path is
   added and when a later write replaces the content of a path; each such
   frame holds the File Registry as it was at that change. *)
RECURSIVE RegistryAfter(_)
\* the File Registry when the n-th event was emitted
RegistryAfter(n) ==
  IF n = 0 THEN <<>>
  ELSE IF IsFileEvent(events[n]) THEN MergeFile(RegistryAfter(n - 1), events[n].data[1])
  ELSE RegistryAfter(n - 1)

CallbackFrames ==
  {i \in 1..Len(consumer.frames) : consumer.frames[i].by = "callback"}

C20_FilesFrameOnEveryChange ==
  consumer.kind = "sse" =>
    /\ \A e \in 1..consumer.resumed : IsFileEvent(events[e]) =>
         \E i \in CallbackFrames : consumer.frames[i].files = RegistryAfter(e)
    /\ \A i \in CallbackFrames :
         /\ consumer.frames[i].type = "files"
         /\ \E e \in 1..consumer.resumed :
              IsFileEvent(events[e]) /\ consumer.frames[i].files = RegistryAfter(e)

-----------------------------------------------------------------------------
(* C21: on a successful run the SSE stream carries exactly one text frame,
   with the final summary, queued after every event frame, and the [DONE]
   sentinel is the last frame of the stream: once the sentinel is written
   or the writer is closed, no callback is left that could write a frame
   and no event is emitted, however the callbacks that emit did not await
   interleave with the handler. *)
FramesOfType(type) ==
  {i \in 1..Len(consumer.frames) : consumer.frames[i].type = type}

C21_OneTextFrameDoneLast ==
  consumer.kind = "sse" =>
    /\ Cardinality(FramesOfType("text")) <= 1
    /\ \A i \in FramesOfType("text") :
         /\ pc = "returned"
         /\ consumer.frames[i].at = Len(events)
         /\ consumer.frames[i].content = <<returned[1].response>>
    /\ \A i \in FramesOfType("done") :
         /\ i = Len(consumer.frames)
         /\ consumer.frames[i].at = Len(events)
         /\ consumer.resumed = Len(events)
         /\ Cardinality(FramesOfType("text")) = 1
    /\ consumer.hpc = "closed" =>
         /\ Settled
         /\ consumer.resumed = Len(events)
         /\ pc = "returned" => FramesOfType("done") = {Len(consumer.frames)}

\* The stream of a run that returned is closed, and a callback that went on
\* late has written its files frame after the handler's text frame.
C21_Witness ==
  /\ consumer.kind = "sse"
  /\ pc = "returned"
  /\ consumer.hpc = "closed"
  /\ \E i \in FramesOfType("text") :
       \E j \in (i + 1)..Len(consumer.frames) : consumer.frames[j].by = "callback"

-----------------------------------------------------------------------------
\* the number of target files a task lists
ListedFiles(task) == IF task.files.isArray THEN task.files.length ELSE 0

RECURSIVE SumListed(_, _)
SumListed(tasks, i) ==
  IF i > Len(tasks) THEN 0
  ELSE (IF ListedFiles(tasks[i]) = 0 THEN 1 ELSE ListedFiles(tasks[i]))
       + SumListed(tasks, i + 1)

\* C22: the plan's estimatedFiles is the sum over its tasks of the number of
\* target files each lists, a task that lists none counting 1; so the plan of
\* every run has estimatedFiles >= 1.
C22_EstimatedFilesIsSumAtLeastOne ==
  PlanSettled =>
    /\ plan.estimatedFiles = SumListed(plan.tasks, 1)
    /\ plan.estimatedFiles >= 1

-----------------------------------------------------------------------------
(* Runs on the fallback plan, over every combination of the keywords      *)
(* createFallbackPlan looks for in the message.                           *)

\* lines 277-278 and 290-291: the keywords
DatabaseKeywords == {"database", "schema", "table", "sql"}
BackendKeywords == {"api", "endpoint", "backend", "server"}

\* the messages, each the set of keywords it contains
FallbackMessages == SUBSET (DatabaseKeywords \cup BackendKeywords)

\* planning calls that throw or return a text nothing is extracted from
FallbackPlanResponses ==
  {r \in PlanResponses : r.data = NoData /\ r.fence = "none" /\ ~r.brace}

InitFallback ==
  /\ pc = "idle"
  /\ userMessage \in FallbackMessages
  /\ existingFiles = <<>>
  /\ planResponse = <<>>
  /\ plan = NoPlan
  /\ idx = 0
  /\ completedTasks = <<>>
  /\ completedTaskOrders = {}
  /\ generatedFiles = <<>>
  /\ events = <<>>
  /\ calls = <<>>
  /\ inFlight = {}
  /\ returned = <<>>
  /\ consumer = Consumer("none")

PlanSettlesFallback == PlanSettlesOn(FallbackPlanResponses)

\* A fallback plan's dependencies and files are arrays, so the two steps
\* that throw on other values have no part in these runs.
NextFallback ==
  \/ ProcessRequest
  \/ PlanSettlesFallback
  \/ SkipTask
  \/ StartTask
  \/ TaskSettles
  \/ Return

SpecFallback == InitFallback /\ [][NextFallback]_vars

\* the agents a fallback plan is to list for the message, in order
FallbackAgents ==
  (IF userMessage \cap DatabaseKeywords # {} THEN <<"database">> ELSE <<>>)
  \o (IF userMessage \cap BackendKeywords # {} THEN <<"backend">> ELSE <<>>)
  \o <<"ui">>

\* C23: the fallback plan has a database task iff the message contains
\* database, schema, table or sql, a backend task iff it contains api,
\* endpoint, backend or server, and always a ui task, in that order, with
\* orders 1..n; the first task has no dependencies and every other task
\* depends exactly on the order of the task right before it.
C23_FallbackPlanShape ==
  (PlanSettled /\ PlanningFailed) =>
    /\ Len(plan.tasks) = Len(FallbackAgents)
    /\ \A i \in 1..Len(plan.tasks) :
         /\ plan.tasks[i].agent = FallbackAgents[i]
         /\ plan.tasks[i].order = i
         /\ plan.tasks[i].dependencies.isArray
         /\ plan.tasks[i].dependencies.vals =
              IF i = 1 THEN {} ELSE {plan.tasks[i - 1].order}

\* A message with a database and a backend keyword: three tasks, run to the
\* end.
C23_Witness ==
  /\ pc = "returned"
  /\ PlanningFailed
  /\ userMessage = {"table", "endpoint"}
  /\ Len(plan.tasks) = 3
  /\ Len(completedTasks) = 3

-----------------------------------------------------------------------------
(* Replies with malformed <file> blocks.  The run is the one-task         *)
(* fallback plan of a message without keywords.                           *)

\* Bound: blocks in a reply of this specification.
MaxBlocks == 3

BlockResponses ==
  SeqsUpTo({Block(kind, path) : kind \in {"ok", "noclose", "emptypath"}, path \in Paths},
           MaxBlocks)

BlockOutcomes == {[kind |-> "text", error |-> "", blocks |-> r] : r \in BlockResponses}

TaskSettlesBlocks == TaskSettlesOn(BlockOutcomes)

InitBlocks == Init /\ userMessage = {}

NextBlocks ==
  \/ ProcessRequest
  \/ PlanSettlesFallback
  \/ StartTask
  \/ TaskSettlesBlocks
  \/ Return

SpecBlocks == InitBlocks /\ [][NextBlocks]_vars

\* the call of recorded task k, and the blocks of its reply
CallOf(k) == CHOOSE c \in 1..Len(calls) :
               calls[c].kind = "task" /\ calls[c].pos = completedTasks[k].pos
ReplyBlocks(k) == calls[CallOf(k)].reply[1].blocks

\* C24: a malformed file block (no close tag, or an empty path) is skipped
\* and does not abort the task; every well-formed block of the same reply,
\* before or after it, is extracted under its own path with its own content.
C24_MalformedBlockSkipped ==
  \A k \in Recorded :
    (TaskCalls(completedTasks[k].pos) # {} /\ calls[CallOf(k)].reply[1].kind = "text") =>
      LET blocks == ReplyBlocks(k)
          files == completedTasks[k].result.files
          wellFormed == {i \in 1..Len(blocks) : blocks[i].kind = "ok"}
      IN /\ \A i \in wellFormed :
              \E f \in 1..Len(files) :
                /\ files[f].path = blocks[i].path
                /\ files[f].content = Content(completedTasks[k].pos, i, i)
         /\ \A f \in 1..Len(files) :
              \E i \in wellFormed :
                /\ files[f].path = blocks[i].path
                /\ files[f].content = Content(completedTasks[k].pos, i, i)
         /\ completedTasks[k].status = "completed" <=> wellFormed # {}

-----------------------------------------------------------------------------
\* what the generator holds and has not yielded yet
GeneratorHolds == consumer.raced \o consumer.buffer

\* the final agent_completed values the generator has yielded
FinalYields == FramesOfType("agent_completed")

\* C25: streamMultiAgentResponse loses, duplicates and reorders nothing,
\* however producer and consumer interleave: the generator yields every
\* emitted event exactly once in the order of emission, then exactly one
\* final agent_completed with the result's files and plan, then finishes.
C25_GeneratorYieldsAllThenFinal ==
  consumer.kind = "generator" =>
    /\ consumer.yielded \o GeneratorHolds = events
    /\ Cardinality(FinalYields) <= 1
    /\ \A i \in FinalYields :
         /\ pc = "returned"
         /\ consumer.yielded = events
         /\ consumer.hpc = "closed"
         /\ consumer.frames[i].files = returned[1].files
         /\ consumer.frames[i].content = <<returned[1].response, returned[1].plan>>
    /\ consumer.hpc = "closed" => Cardinality(FinalYields) = 1
    /\ consumer.hpc # "threw"
    /\ (Settled /\ consumer.hpc # "closed") =>
         ENABLED (GeneratorYields \/ GeneratorAwaits \/ GeneratorResumes \/ GeneratorEnds)

-----------------------------------------------------------------------------
\* the recorded tasks that failed
FailedTasks == {k \in Recorded : completedTasks[k].status = "failed"}

\* the entries of a list of files for a path
EntriesIn(files, path) == {i \in 1..Len(files) : files[i].path = path}

\* C26: a task that fails (the service threw, or no file was extracted)
\* leaves the File Registry unchanged and emits no file_created or
\* file_modified event; so the files processRequest returns are exactly the
\* latest versions of the files produced by the tasks recorded as completed.
C26_FailedTaskLeavesRegistry ==
  /\ \A k \in FailedTasks :
       LET p == completedTasks[k].pos IN
       /\ \A e \in 1..Len(events) : IsFileEvent(events[e]) => events[e].pos # p
       /\ \A i \in 1..Len(generatedFiles) : generatedFiles[i].content.task # p
  /\ pc = "returned" =>
       LET files == returned[1].files IN
       /\ files = generatedFiles
       /\ PathsOf(files) = {path \in Paths : Writers(path) # {}}
       /\ \A i \in 1..Len(files) :
            /\ EntriesIn(files, files[i].path) = {i}
            /\ files[i] = LastWrite(Last(Writers(files[i].path)), files[i].path)

\* The run's first task produced two files, its second task failed without
\* a file in its reply, and the run returned.
C26_Witness ==
  /\ pc = "returned"
  /\ Len(returned[1].files) = 2
  /\ \E k \in FailedTasks : k > 1 /\ NoFilesExtracted(k)

-----------------------------------------------------------------------------
\* the events of a type, of whatever task
EventsOfType(type) == {e \in 1..Len(events) : events[e].type = type}

\* C27: when processRequest returns, every task of the plan has exactly
\* one outcome: skipped (one task_skipped event, no CompletedTask) or
\* attempted (one CompletedTask, completed or failed, one task_started and
\* one task_completed event); so the task_skipped events and the
\* CompletedTask entries together are as many as the plan's tasks, and the
\* completed set is the set of orders of the tasks recorded as completed.
C27_OneOutcomePerTask ==
  pc = "returned" =>
    /\ \A p \in Positions :
         LET skipped == EventsAt(p, {"task_skipped"})
             started == EventsAt(p, {"task_started"})
             completed == EventsAt(p, {"task_completed"})
         IN \/ /\ Cardinality(skipped) = 1
               /\ EntriesOf(p) = {}
               /\ started = {} /\ completed = {}
            \/ /\ skipped = {}
               /\ Cardinality(EntriesOf(p)) = 1
               /\ \A k \in EntriesOf(p) :
                    /\ completedTasks[k].status \in {"completed", "failed"}
                    /\ completedTasks[k].status = "completed"
                         <=> completedTasks[k].result.success
                    /\ completedTasks[k].id = plan.tasks[p].order
               /\ Cardinality(started) = 1 /\ Cardinality(completed) = 1
    /\ Cardinality(EventsOfType("task_skipped")) + Len(completedTasks) = Len(plan.tasks)
    /\ Cardinality(EventsOfType("task_started")) = Len(completedTasks)
    /\ completedTaskOrders =
         {completedTasks[k].id : k \in {j \in Recorded : completedTasks[j].status = "completed"}}

\* A run that returned with a completed task, a failed task and a skipped
\* task.
C27_Witness ==
  /\ pc = "returned"
  /\ \E p \in Positions : Skipped(p)
  /\ FailedTasks # {}
  /\ completedTaskOrders # {}

-----------------------------------------------------------------------------
\* createPlan threw on the planning call's outcome: the call threw, nothing
\* was extracted or parsed, the parsed value has no tasks, or a task has no
\* agent string
CreatePlanThrew ==
  LET resp == planResponse[1] IN
  \/ resp.kind = "throws"
  \/ ~HasJsonContent(resp)
  \/ ~resp.data.syntaxOk
  \/ ~resp.data.hasTasks
  \/ \E i \in 1..Len(resp.data.tasks) : ~resp.data.tasks[i].agentIsString

\* the events of a type whose agentRole is the orchestrator
OrchestratorEvents(type) ==
  {e \in EventsOfType(type) : events[e].agentRole = "orchestrator"}

\* the task_started, task_skipped and file events
TaskOrFileEvents ==
  {e \in 1..Len(events) :
     events[e].type \in {"task_started", "task_skipped", "file_created", "file_modified"}}

\* the agent_completed events that carry a plan
PlanEvents == {e \in EventsOfType("agent_completed") : events[e].data # <<>>}

\* the first event, and the agent_error events
FirstEventAndErrors ==
  /\ events # <<>> =>
       events[1].type = "agent_started" /\ events[1].agentRole = "orchestrator"
  /\ ~PlanSettled => EventsOfType("agent_error") = {}
  /\ PlanSettled =>
       /\ Cardinality(OrchestratorEvents("agent_error")) = IF CreatePlanThrew THEN 1 ELSE 0
       /\ EventsOfType("agent_error") = OrchestratorEvents("agent_error")

\* C28: in every run the first event is agent_started for the
\* orchestrator; an agent_error for the orchestrator is emitted exactly once
\* if createPlan failed and never otherwise; exactly one agent_completed for
\* the orchestrator, carrying the plan that will be executed, is emitted,
\* before any task_started, task_skipped or file event.
C28_PlanningEvents ==
  /\ FirstEventAndErrors
  /\ ~PlanSettled => OrchestratorEvents("agent_completed") = {} /\ TaskOrFileEvents = {}
  /\ PlanSettled =>
       /\ Cardinality(OrchestratorEvents("agent_completed")) = 1
       /\ \A e \in OrchestratorEvents("agent_completed") :
            /\ events[e].data = <<plan>>
            /\ \A t \in TaskOrFileEvents : e < t

\* C28 as amended: the same, but of the orchestrator's agent_completed
\* events exactly one carries the plan, and that one precedes every
\* task_started, task_skipped and file event; a task the plan assigns to the
\* orchestrator role emits its own agent_started and agent_completed for
\* that role, after it.
C28_PlanningEventsAmended ==
  /\ FirstEventAndErrors
  /\ ~PlanSettled => OrchestratorEvents("agent_completed") = {} /\ TaskOrFileEvents = {}
  /\ PlanSettled =>
       /\ Cardinality(PlanEvents) = 1
       /\ \A e \in PlanEvents :
            /\ events[e].agentRole = "orchestrator"
            /\ events[e].data = <<plan>>
            /\ \A t \in TaskOrFileEvents : e < t
            /\ \A f \in OrchestratorEvents("agent_completed") :
                 f # e => /\ f > e
                          /\ events[f].pos \in Positions
                          /\ plan.tasks[events[f].pos].agent = "orchestrator"

\* A run on a planner's plan with a task for the orchestrator role, which
\* was executed.
C28_Witness ==
  /\ pc = "returned"
  /\ ~CreatePlanThrew
  /\ \E p \in Positions : plan.tasks[p].agent = "orchestrator" /\ Executed(p)
  /\ Cardinality(OrchestratorEvents("agent_completed")) = 2

-----------------------------------------------------------------------------
\* the task at position p is recorded as completed
CompletedAt(p) == \E k \in EntriesOf(p) : completedTasks[k].status = "completed"

\* the task at position p is recorded as failed
FailedAt(p) == \E k \in EntriesOf(p) : completedTasks[k].status = "failed"

\* C29: the tasks of a fallback plan form a linear dependency chain: once a
\* fallback task has failed every task after it is skipped; the ui task is
\* attempted only if every fallback task listed before it completed; and a
\* run whose first fallback task fails returns no files.
C29_FallbackChain ==
  (PlanSettled /\ PlanningFailed) =>
    /\ \A p \in Positions :
         /\ Executed(p) => \A q \in 1..(p - 1) : CompletedAt(q)
         /\ (p < idx /\ \E q \in 1..(p - 1) : FailedAt(q))
              => Skipped(p) /\ ~Executed(p) /\ EntriesOf(p) = {}
    /\ plan.tasks[Len(plan.tasks)].agent = "ui"
    /\ (pc = "returned" /\ FailedAt(1)) =>
         /\ returned[1].files = <<>>
         /\ \A p \in 2..Len(plan.tasks) : Skipped(p)

\* A fallback plan of three tasks whose first task failed: the backend and
\* the ui task were skipped and the run returned no files.
C29_Witness ==
  /\ pc = "returned"
  /\ PlanningFailed
  /\ Len(plan.tasks) = 3
  /\ FailedAt(1)
  /\ Skipped(2) /\ Skipped(3)
  /\ returned[1].files = <<>>

-----------------------------------------------------------------------------
\* the positions of the plan that were attempted
Attempted == {p \in Positions : Executed(p)}

\* C30: the summary's closing line reports full success exactly when no
\* attempted task failed: it compares the number of completed tasks with
\* the number of attempted tasks, so skipped tasks are neither listed under
\* Completed Tasks nor counted, and a run in which tasks were skipped but
\* none failed still reports that all tasks completed.
C30_SummaryCountsAttemptedOnly ==
  pc = "returned" =>
    LET response == returned[Len(returned)].response IN
    /\ response.closing.allCompleted <=> FailedTasks = {}
    /\ response.closing.total = Cardinality(Attempted)
    /\ response.closing.successCount = Cardinality({p \in Positions : CompletedAt(p)})
    /\ Len(response.tasks) = Cardinality(Attempted)
    /\ \A i \in 1..Len(response.tasks) :
         /\ completedTasks[i].pos \in Attempted
         /\ ~Skipped(completedTasks[i].pos)
         /\ response.tasks[i].description = plan.tasks[completedTasks[i].pos].description
         /\ response.tasks[i].done <=> CompletedAt(completedTasks[i].pos)
    /\ \A p \in Positions : Skipped(p) => \A i \in Recorded : completedTasks[i].pos # p

\* A run whose only task was skipped: nothing is listed and the closing
\* line says that all tasks completed.
C30_Witness ==
  /\ pc = "returned"
  /\ \E p \in Positions : Skipped(p)
  /\ FailedTasks = {}
  /\ returned[1].response.closing.allCompleted
  /\ returned[1].response.tasks = <<>>

====
